---- MODULE Spec2Model ----
(***************************************************************************)
(* A model of weather-cli: the two variants weather_cli_spark.py ("spark") *)
(* and weather_cli_rich.py ("rich").  Three specifications share the       *)
(* variables:                                                              *)
(*   Spec      main(): arguments, prompt, requests, fallback, error lines  *)
(*   SpecNorm  fetch_weather_and_forecast's normalizer on fallback payloads*)
(*   SpecSpark sparkline() on sample sequences and widths                  *)
(***************************************************************************)
EXTENDS Integers, Sequences, FiniteSets, TLC

VARIABLES
    variant,    \* which file runs: "spark" or "rich"
    env,        \* the OPENWEATHER_KEY environment variable: "absent", "blank", "set"
    decodeErr,  \* class of the error r.json() raises in the installed requests
    argv,       \* sys.argv[1:]
    cfg,        \* the preferences file as load_cfg() returns it
    choice,     \* the answer at the "Choice: " prompt ("none" before it)
    raised,     \* the exception that left main's try block ("none" if none)
    pc,         \* position in the program
    units,      \* main's local units
    last_city,  \* main's local last_city
    city,       \* main's local city (None or a string)
    coords,     \* main's local lat/lon (None or a pair)
    reqs,       \* the HTTP requests issued so far, in order
    shown,      \* the lines shown to the user, in order (by kind)
    saved,      \* what save_cfg wrote (None before the save)
    payload,    \* the raw fallback payload: /weather and /forecast bodies
    data,       \* the snapshot handed to the renderer / the normalizer's result
    values,     \* sparkline's values argument
    width,      \* sparkline's width argument
    spark       \* sparkline's result

vars == <<variant, env, decodeErr, argv, cfg, choice, raised, pc, units, last_city, city,
          coords, reqs, shown, saved, payload, data, values, width, spark>>

----------------------------------------------------------------------------
(* Python values *)

\* Python's None
None == [k |-> "None"]

\* a number
Num(v) == [k |-> "num", v |-> v]

\* a dict lookup that finds no key
Absent == [k |-> "absent"]

\* a string, as its words (" ".join(words)); no words is the empty string
Str(words) == [k |-> "str", words |-> words]

\* a list
List(s) == [k |-> "list", v |-> s]

\* d.get(key): None when the key is absent
Get(x) == IF x = Absent THEN None ELSE x

\* d.get(key, default)
GetOr(x, default) == IF x = Absent THEN default ELSE x

\* a returned value
Ok(v) == [k |-> "ok", v |-> v]

\* a raised exception of class c
Raise(c) == [k |-> "raise", exc |-> c]

RECURSIVE SeqMin(_)
SeqMin(s) == IF Len(s) = 1 THEN s[1]
             ELSE LET m == SeqMin(Tail(s)) IN IF s[1] <= m THEN s[1] ELSE m

RECURSIVE SeqMax(_)
SeqMax(s) == IF Len(s) = 1 THEN s[1]
             ELSE LET m == SeqMax(Tail(s)) IN IF s[1] >= m THEN s[1] ELSE m

\* s[i] for a Python index i into a sequence s (0-based, negative from the end)
PyIndex(s, i) ==
    IF 0 <= i /\ i < Len(s) THEN Ok(s[i + 1])
    ELSE IF -Len(s) <= i /\ i < 0 THEN Ok(s[Len(s) + i + 1])
    ELSE Raise("IndexError")

----------------------------------------------------------------------------
(* sparkline *)

\* the palette, by code point
SPARK == <<"U+2581", "U+2582", "U+2583", "U+2584",
           "U+2585", "U+2586", "U+2587", "U+2588">>

\* vals: the samples fitted to width (stride sample, or right padding)
FitStretch(vals, w) ==
    [i \in 1..w |-> vals[(((i - 1) * Len(vals)) \div w) + 1]]

Fit(vals, w) ==
    IF Len(vals) > w
    THEN [i \in 1..w |-> vals[(((i - 1) * Len(vals)) \div w) + 1]]
    ELSE vals \o [i \in 1..(w - Len(vals)) |-> vals[Len(vals)]]

\* idx = int((v - lo) / (hi - lo) * (len(SPARK)-1))
LevelFullScale(v, lo, hi) == ((v - lo) * Len(SPARK)) \div (hi - lo)

Level(v, lo, hi) == ((v - lo) * (Len(SPARK) - 1)) \div (hi - lo)

\* the glyph of level idx: spark clamps the index, rich indexes the palette
Glyph(var, idx) ==
    IF var = "spark"
    THEN LET hiIdx == Len(SPARK) - 1
             c == IF idx > hiIdx THEN hiIdx ELSE idx
         IN  PyIndex(SPARK, IF c < 0 THEN 0 ELSE c)
    ELSE PyIndex(SPARK, idx)

sparkline(var, vals0, w) ==
    IF vals0 = <<>> THEN Ok(<<>>)
    ELSE LET vals == Fit(vals0, w)
             lo == SeqMin(vals)
             hi == SeqMax(vals)
             gs == [i \in 1..Len(vals) |-> Glyph(var, Level(vals[i], lo, hi))]
         IN  IF hi = lo THEN Ok([i \in 1..Len(vals) |-> SPARK[1]])
             ELSE IF \E i \in 1..Len(gs) : gs[i].k = "raise"
             THEN Raise("IndexError")
             ELSE Ok([i \in 1..Len(gs) |-> gs[i].v])

----------------------------------------------------------------------------
(* fetch_weather_and_forecast: the Case B normalizer *)

\* the hourly sequence holds at most this many entries, and is padded to it
HOURLY_LEN == 24

SECONDS_PER_DAY == 86400

\* datetime.utcfromtimestamp(dt).date(), as days since the epoch
UtcDate(dt) == dt \div SECONDS_PER_DAY

\* {"dt": item.get("dt"), "temp": item.get("main",{}).get("temp"),
\*  "weather": item.get("weather",[])}
HourlyItem(item) ==
    [dt |-> Get(item.dt), temp |-> Get(item.temp),
     weather |-> GetOr(item.weather, List(<<>>))]

\* for item in fr_list: hourly.append(...); if len(hourly) >= 24: break
RECURSIVE TakeHourly(_, _, _)
TakeHourly(fr_list, i, hourly) ==
    IF i > Len(fr_list) THEN hourly
    ELSE LET h == Append(hourly, HourlyItem(fr_list[i]))
         IN  IF Len(h) >= HOURLY_LEN THEN h ELSE TakeHourly(fr_list, i + 1, h)

\* while len(hourly) < 24: hourly.append(last)
RECURSIVE PadHourly(_, _)
PadHourly(hourly, last) ==
    IF Len(hourly) < HOURLY_LEN THEN PadHourly(Append(hourly, last), last)
    ELSE hourly

BuildHourlyPadFirst(fr_list) ==
    LET taken == TakeHourly(fr_list, 1, <<>>)
    IN  IF taken # <<>> /\ Len(taken) < HOURLY_LEN
        THEN PadHourly(taken, taken[1])
        ELSE taken

BuildHourly(fr_list) ==
    LET taken == TakeHourly(fr_list, 1, <<>>)
    IN  IF taken # <<>> /\ Len(taken) < HOURLY_LEN
        THEN PadHourly(taken, taken[Len(taken)])
        ELSE taken

\* daily_map: the items of one day, in payload order
DayGroup(fr_list, day) ==
    LET OfDay(item) == UtcDate(item.dt.v) = day IN SelectSeq(fr_list, OfDay)

\* sorted(daily_map.keys())
RECURSIVE SortedDays(_)
SortedDays(days) ==
    IF days = {} THEN <<>>
    ELSE LET d == CHOOSE x \in days : \A y \in days : x <= y
         IN  <<d>> \o SortedDays(days \ {d})

PayloadOrderDays(fr_list) ==
    LET RECURSIVE Seen(_, _)
        Seen(i, acc) ==
            IF i > Len(fr_list) THEN acc
            ELSE LET d == UtcDate(fr_list[i].dt.v)
                 IN  Seen(i + 1, IF \E j \in 1..Len(acc) : acc[j] = d
                                 THEN acc ELSE Append(acc, d))
    IN  Seen(1, <<>>)

DayKeys(fr_list) ==
    SortedDays({UtcDate(fr_list[i].dt.v) : i \in 1..Len(fr_list)})

\* the non-None numbers of a sequence of optional numbers, in order
NotNone(s) ==
    LET IsNum(x) == x # None
        kept == SelectSeq(s, IsNum)
    IN  [i \in 1..Len(kept) |-> kept[i].v]

\* tmin = min(mins) if mins else None
DayMin(group) ==
    LET mins == NotNone([i \in 1..Len(group) |-> Get(group[i].temp_min)])
    IN  IF mins # <<>> THEN Num(SeqMin(mins)) ELSE None

\* tmax = max(maxs) if maxs else None
DayMax(group) ==
    LET maxs == NotNone([i \in 1..Len(group) |-> Get(group[i].temp_max)])
    IN  IF maxs # <<>> THEN Num(SeqMax(maxs)) ELSE None

\* w = item.get("weather",[{}])[0]; "{}" is the empty dict of the default
ItemWeather(item) == GetOr(item.weather, List(<<"{}">>)).v[1]

DailyItem(fr_list, day) ==
    LET group == DayGroup(fr_list, day)
        mid_idx == Len(group) \div 2
    IN  [dt |-> group[mid_idx + 1].dt,
         temp |-> [min |-> DayMin(group), max |-> DayMax(group)],
         weather |-> List(<<ItemWeather(group[mid_idx + 1])>>)]

BuildDaily(fr_list) ==
    LET keys == DayKeys(fr_list)
    IN  [i \in 1..Len(keys) |-> DailyItem(fr_list, keys[i])]

\* what the daily loop raises at an item: utcfromtimestamp(None) is a
\* TypeError, [][0] an IndexError; "none" when the item passes
ItemError(item) ==
    IF Get(item.dt) = None THEN "TypeError"
    ELSE IF item.weather = List(<<>>) THEN "IndexError"
    ELSE "none"

\* the normalizer on the decoded /weather body p.cur and /forecast list p.list
Normalize(p) ==
    LET fr_list == p.list
        bad == {i \in 1..Len(fr_list) : ItemError(fr_list[i]) # "none"}
    IN  IF bad # {}
        THEN Raise(ItemError(fr_list[CHOOSE i \in bad : \A j \in bad : i <= j]))
        ELSE Ok([current |-> [dt |-> Get(p.cur.dt),
                              temp |-> Get(p.cur.temp),
                              feels_like |-> Get(p.cur.feels_like),
                              humidity |-> Get(p.cur.humidity),
                              wind_speed |-> Get(p.cur.wind_speed),
                              weather |-> GetOr(p.cur.weather, List(<<>>))],
                 hourly |-> BuildHourly(fr_list),
                 daily |-> BuildDaily(fr_list),
                 timezone_offset |-> 0])

----------------------------------------------------------------------------
(* Inputs *)

Variants == {"spark", "rich"}

\* longest sample sequence and widest sparkline tried
MaxLen == 4
MaxWidth == 6

\* longest generated /forecast list, and longest freely ordered one
MaxEntries == 30
MaxShort == 2

SampleTemps == {-5, 10, 20, 30}

SeqsUpTo(S, n) == UNION {[1..m -> S] : m \in 0..n}

\* the i-th item of a /forecast list of 3-hour steps that starts at hour t0h
GenItem(i, t0h) ==
    [dt |-> Num((t0h + 3 * (i - 1)) * 3600),
     temp |-> IF i % 7 = 0 THEN None ELSE Num(((i * 5) % 9) + 8),
     temp_min |-> IF i % 4 = 0 THEN None ELSE Num(((i * 7) % 11) - 3),
     temp_max |-> IF i % 5 = 0 THEN None ELSE Num(((i * 3) % 7) + 12),
     weather |-> List(<<IF i % 2 = 0 THEN "Rain" ELSE "Clear">>)]

GenList(n, t0h, rev) ==
    [i \in 1..n |-> IF rev THEN GenItem(n + 1 - i, t0h) ELSE GenItem(i, t0h)]

\* items for short lists in any order: three days, optional fields, and two
\* malformed items (no dt; an empty weather list)
ShortItems ==
    {[dt |-> Num(h * 3600), temp |-> Num(15), temp_min |-> lo,
      temp_max |-> hi, weather |-> List(<<"Clouds">>)] :
        h \in {10, 30, 50}, lo \in {Absent, Num(1), Num(4)}, hi \in {None, Num(6)}}
    \cup {[dt |-> Absent, temp |-> Absent, temp_min |-> Absent, temp_max |-> Absent,
           weather |-> Absent],
          [dt |-> Num(10 * 3600), temp |-> Num(15), temp_min |-> Num(1),
           temp_max |-> Num(6), weather |-> List(<<>>)]}

ForecastLists ==
    {GenList(n, t0h, rev) : n \in 0..MaxEntries, t0h \in {0, 9, 21}, rev \in BOOLEAN}
    \cup SeqsUpTo(ShortItems, MaxShort)

\* decoded /weather bodies: complete, without main.temp, and an empty object
CurFull == [dt |-> Num(3600), temp |-> Num(20), feels_like |-> Num(19),
            humidity |-> Num(50), wind_speed |-> Num(3),
            weather |-> List(<<"Clear">>)]

CurNoTemp == [CurFull EXCEPT !.temp = Absent]

CurEmpty == [dt |-> Absent, temp |-> Absent, feels_like |-> Absent,
             humidity |-> Absent, wind_speed |-> Absent, weather |-> Absent]

CurBodies == {CurFull, CurNoTemp, CurEmpty}

----------------------------------------------------------------------------
(* main's variables, idle while a single function is exercised *)

MainIdle ==
    /\ env = "set" /\ decodeErr = "RequestException"
    /\ argv = <<>> /\ cfg = None /\ choice = "none" /\ raised = "none"
    /\ units = "metric" /\ last_city = "" /\ city = None /\ coords = None
    /\ reqs = <<>> /\ shown = <<>> /\ saved = None

MainVars == <<env, decodeErr, argv, cfg, choice, raised, units, last_city, city, coords,
              reqs, shown, saved>>

----------------------------------------------------------------------------
(* SpecSpark: sparkline(values, width) *)

InitSpark ==
    /\ MainIdle
    /\ variant \in Variants
    /\ pc = "sparkline"
    /\ values \in SeqsUpTo(SampleTemps, MaxLen)
    /\ width \in 1..MaxWidth
    /\ spark = None
    /\ payload = None /\ data = None

SparklineCall ==
    /\ pc = "sparkline"
    /\ spark' = sparkline(variant, values, width)
    /\ pc' = "sparkline_done"
    /\ UNCHANGED <<MainVars, variant, values, width, payload, data>>

NextSpark == SparklineCall

SpecSpark == InitSpark /\ [][NextSpark]_vars

----------------------------------------------------------------------------
(* SpecNorm: the normalizer of fetch_weather_and_forecast *)

InitNorm ==
    /\ MainIdle
    /\ variant \in Variants
    /\ pc = "normalize"
    /\ payload \in {[cur |-> c, list |-> l] : c \in CurBodies, l \in ForecastLists}
    /\ data = None
    /\ values = <<>> /\ width = 0 /\ spark = None

NormalizeCall ==
    /\ pc = "normalize"
    /\ data' = Normalize(payload)
    /\ pc' = "normalize_done"
    /\ UNCHANGED <<MainVars, variant, payload, values, width, spark>>

NextNorm == NormalizeCall

SpecNorm == InitNorm /\ [][NextNorm]_vars

----------------------------------------------------------------------------
(* Claims about the normalizer *)

Normalized == pc = "normalize_done" /\ data.k = "ok"

SameHourly(h, item) ==
    /\ h.dt = Get(item.dt)
    /\ h.temp = Get(item.temp)
    /\ h.weather = GetOr(item.weather, List(<<>>))

DaysOf(fr) == {UtcDate(fr[i].dt.v) : i \in 1..Len(fr)}

\* the non-None values of field f among the items of day d
DayValues(fr, d, f) ==
    {fr[i][f].v : i \in {j \in 1..Len(fr) :
                              UtcDate(fr[j].dt.v) = d /\ fr[j][f] \notin {None, Absent}}}

----------------------------------------------------------------------------
(* Claims about sparkline *)

SparklineDone == pc = "sparkline_done"

Palette == {SPARK[i] : i \in 1..Len(SPARK)}

\* C9: for every non-empty sequence of numeric samples (shorter than, equal
\* to, or longer than W) and every width W >= 1, sparkline returns a string of
\* exactly W characters, each one of the 8 palette glyphs, in both variants.
C9_WidthAndPalette ==
    (SparklineDone /\ values # <<>>) =>
        /\ spark.k = "ok"
        /\ Len(spark.v) = width
        /\ \A i \in 1..Len(spark.v) : spark.v[i] \in Palette
        /\ Cardinality(Palette) = 8

\* C9's case: the unclamped variant, more samples than W, the top glyph drawn
C9_Witness ==
    /\ SparklineDone
    /\ variant = "rich"
    /\ Len(values) > width
    /\ spark.k = "ok"
    /\ \E i \in 1..Len(spark.v) : spark.v[i] = SPARK[8]
    /\ \E i \in 1..Len(spark.v) : spark.v[i] = SPARK[4]

IsC10Input == SparklineDone /\ values = <<10, 20, 30>> /\ width = 6

\* C10 as stated: for samples [10, 20, 30] and W = 6 the six positions come
\* from input indices [0,0,1,1,2,2]: two low, two mid, two high glyphs.
C10_Original ==
    IsC10Input =>
        spark = sparkline(variant, <<10, 10, 20, 20, 30, 30>>, 6)

\* C10 amended: for samples [10, 20, 30] and W = 6 the input is not longer
\* than W, so it is padded on the right with its last sample: the positions
\* come from input indices [0,1,2,2,2,2], one low glyph, one mid glyph and
\* four high glyphs.
C10_PadsRight ==
    IsC10Input =>
        spark = Ok(<<SPARK[1], SPARK[4], SPARK[8], SPARK[8], SPARK[8], SPARK[8]>>)

C10_Witness ==
    /\ IsC10Input
    /\ spark.k = "ok"
    /\ Len(spark.v) = 6
    /\ spark.v[2] # spark.v[1]
    /\ spark.v[4] = spark.v[6]

----------------------------------------------------------------------------
(* main: configuration, exceptions, responses *)

\* longest argument list tried
MaxArgs == 3

DEFAULT_CITY == Str(<<"London">>)

\* the words the arguments are made of; only "1.5" and "-0.1" parse as floats
ArgWords == {"--coords", "1.5", "Paris"}

ParsesAsFloat(word) == word \in {"1.5", "-0.1"}

\* OPENWEATHER_KEY: a literal in spark, the stripped environment variable in rich
OPENWEATHER_KEY(var, e) ==
    IF var = "spark" THEN "REMOVED_OPENWEATHER_KEY"
    ELSE IF e = "set" THEN "key" ELSE ""

USE_OWM == OPENWEATHER_KEY(variant, env) # ""

\* bool(x) of a string or None
Truthy(x) == x # None /\ x.words # <<>>

\* the class an exception class derives from
ParentClass(c) ==
    CASE c \in {"HTTPError", "Timeout", "ConnectionError"} -> "RequestException"
      [] c = "JSONDecodeError" -> decodeErr
      [] c = "RequestException" -> "OSError"
      [] c \in {"OSError", "ValueError", "KeyError", "IndexError", "TypeError",
                "AttributeError"} -> "Exception"
      [] OTHER -> "BaseException"

RECURSIVE IsInstance(_, _)
IsInstance(c, cls) ==
    IF c = cls THEN TRUE
    ELSE IF c = "BaseException" THEN FALSE
    ELSE IsInstance(ParentClass(c), cls)

\* what a GET can come to: a 200 with a JSON body, a 200 whose body is not
\* JSON, an error status (4xx/5xx), a timeout, a connection failure
Responses == {"ok200", "notjson200", "status4xx", "timeout", "connerr"}

\* requests.get(url, timeout=...): the exception it raises, or "none"
GetRaises(resp) ==
    CASE resp = "timeout" -> "Timeout"
      [] resp = "connerr" -> "ConnectionError"
      [] OTHER -> "none"

\* r = requests.get(...); r.raise_for_status(); r.json()
GetJsonRaises(resp) ==
    CASE GetRaises(resp) # "none" -> GetRaises(resp)
      [] resp = "status4xx" -> "HTTPError"
      [] resp = "notjson200" -> "JSONDecodeError"
      [] OTHER -> "none"

\* main's handlers: except requests.HTTPError, then except Exception
HandlerHTTPOnly(exc) ==
    IF IsInstance(exc, "HTTPError") THEN "Network/API error:" ELSE "uncaught"

Handler(exc) ==
    IF IsInstance(exc, "HTTPError") THEN "Network/API error:"
    ELSE IF IsInstance(exc, "Exception") THEN "Error:"
    ELSE "uncaught"

\* an exception leaves the try block of main, after lines were printed in it
FailsAfter(exc, lines) ==
    /\ raised' = exc
    /\ IF Handler(exc) = "uncaught"
       THEN pc' = "crashed" /\ shown' = Append(shown \o lines, "Traceback")
       ELSE pc' = "done" /\ shown' = Append(shown \o lines, Handler(exc))

Fails(exc) == FailsAfter(exc, <<>>)

Request(to, resp, body) == [to |-> to, got |-> resp, body |-> body]

----------------------------------------------------------------------------
(* main: bodies the endpoints answer with *)

\* geocoding: one match, no match, a match without "lat"
GeoBodies ==
    {List(<<[lat |-> Num(51), lon |-> Num(0)]>>),
     List(<<>>),
     List(<<[lat |-> Absent, lon |-> Num(0)]>>)}

\* One Call: a full snapshot, one without current.temp, and a JSON list
OneCallFull ==
    [current |-> [dt |-> Num(3600), temp |-> Num(20),
                  feels_like |-> Num(19), humidity |-> Num(50),
                  wind_speed |-> Num(3), weather |-> List(<<"Clear">>)],
     hourly |-> [i \in 1..2 |-> [dt |-> Num(i * 3600), temp |-> Num(20 + i),
                                 weather |-> List(<<"Clear">>)]],
     daily |-> [i \in 1..2 |-> [dt |-> Num(i * SECONDS_PER_DAY),
                                temp |-> [min |-> Num(5), max |-> Num(25)],
                                weather |-> List(<<"Clear">>)]],
     timezone_offset |-> 3600]

OneCallBodies ==
    {OneCallFull,
     [OneCallFull EXCEPT !.current.temp = Absent],
     List(<<>>)}

\* /forecast lists the run is tried with
RunForecastLists ==
    {GenList(5, 21, FALSE),
     <<>>,
     <<[dt |-> Absent, temp |-> Absent, temp_min |-> Absent, temp_max |-> Absent,
        weather |-> Absent]>>}

\* /weather bodies the run is tried with
RunCurBodies == {CurFull, CurNoTemp, CurEmpty}

\* wttr: a full body, and one whose second day has no "date"
WttrFull ==
    [current_condition |-> List(<<[temp_C |-> "20", temp_F |-> "68"]>>),
     weather |-> List(<<[date |-> Str(<<"2024-01-01">>)],
                        [date |-> Str(<<"2024-01-02">>)]>>)]

WttrBodies ==
    {WttrFull,
     [WttrFull EXCEPT !.weather = List(<<[date |-> Str(<<"2024-01-01">>)],
                                         [date |-> Absent]>>)]}

\* load_cfg(): {} when the file is missing or unreadable
CfgFiles ==
    {[units |-> Absent, last_city |-> Absent],
     [units |-> Str(<<"imperial">>), last_city |-> Str(<<>>)]}

----------------------------------------------------------------------------
(* main: rendering *)

IsDict(d) == "k" \notin DOMAIN d

\* a temperature list holds a None: min(), max() or round() raise TypeError
HasNone(s) == \E i \in 1..Len(s) : s[i] = None

\* the current temperature as displayed: round(cur.get('temp',0)); the default
\* applies to an absent key only, and round(None) raises TypeError
ShownTemp(d) ==
    LET t == GetOr(d.current.temp, Num(0))
    IN  IF t = None THEN Raise("TypeError") ELSE Ok(t.v)

\* render_owm / render_rich_owm: the exception raised ("none" if none) and
\* whether output was printed before it
RenderOwm(var, d) ==
    IF ~IsDict(d) THEN [exc |-> "AttributeError", partial |-> FALSE]
    ELSE
    LET cur == d.current
        temps == [i \in 1..Len(d.hourly) |-> Get(d.hourly[i].temp)]
        temps24 == [i \in 1..(IF Len(temps) > 24 THEN 24 ELSE Len(temps)) |-> temps[i]]
        shownDays == {i \in 2..4 : i <= Len(d.daily)}
        roundNone == \/ GetOr(cur.temp, Num(0)) = None
                     \/ GetOr(cur.feels_like, Num(0)) = None
                     \/ GetOr(cur.wind_speed, Num(0)) = None
        dayNone == \E i \in shownDays : d.daily[i].dt = None
        sparkOnly == \/ GetOr(cur.dt, Num(0)) = None
                     \/ HasNone(temps24)
                     \/ \E i \in shownDays : \/ d.daily[i].temp.max = None
                                             \/ d.daily[i].temp.min = None
    IN  IF GetOr(cur.weather, List(<<"{}">>)) = List(<<>>)
        THEN [exc |-> "IndexError", partial |-> FALSE]
        ELSE IF roundNone \/ dayNone \/ (var = "spark" /\ sparkOnly)
        THEN [exc |-> "TypeError", partial |-> TRUE]
        ELSE [exc |-> "none", partial |-> TRUE]

\* render_wttr / render_rich_wttr
RenderWttr(var, d) ==
    IF \E i \in 2..4 : i <= Len(d.weather.v) /\ d.weather.v[i].date = Absent
    THEN [exc |-> "KeyError", partial |-> TRUE]
    ELSE [exc |-> "none", partial |-> TRUE]

----------------------------------------------------------------------------
(* Spec: a run of main *)

COORD_FLAGS == {"--coords", "-c"}

InputVars == <<variant, env, decodeErr, argv>>
PureVars == <<values, width, spark>>

Init ==
    /\ variant \in Variants
    /\ env \in {"absent", "blank", "set"}
    /\ decodeErr \in {"RequestException", "ValueError"}
    /\ argv \in SeqsUpTo(ArgWords, MaxArgs)
    /\ cfg = None /\ choice = "none" /\ raised = "none"
    /\ pc = "main"
    /\ units = None /\ last_city = None /\ city = None /\ coords = None
    /\ reqs = <<>> /\ shown = <<>> /\ saved = None
    /\ payload = None /\ data = None
    /\ values = <<>> /\ width = 0 /\ spark = None

\* main up to the options prompt: load_cfg, then the arguments
MainStart ==
    /\ pc = "main"
    /\ \E f \in CfgFiles, typed \in {Str(<<>>), Str(<<"Oslo">>)} :
        LET units0 == GetOr(f.units, Str(<<"metric">>))
            last0 == GetOr(f.last_city, DEFAULT_CITY)
            asCity == Str(argv)
            prompted == IF Truthy(typed) THEN typed ELSE DEFAULT_CITY
        IN  /\ cfg' = f
            /\ units' = units0
            /\ IF variant = "spark"
               THEN IF argv # <<>>
                    THEN IF argv[1] \in COORD_FLAGS /\ Len(argv) >= 3
                         THEN IF ParsesAsFloat(argv[2]) /\ ParsesAsFloat(argv[3])
                              THEN /\ coords' = [lat |-> argv[2], lon |-> argv[3]]
                                   /\ city' = None /\ last_city' = last0
                                   /\ pc' = "prompt" /\ shown' = shown
                              ELSE /\ shown' = Append(shown, "Bad coords. --coords LAT LON")
                                   /\ pc' = "done"
                                   /\ coords' = None /\ city' = None /\ last_city' = last0
                         ELSE /\ city' = asCity /\ last_city' = asCity
                              /\ coords' = None /\ pc' = "prompt" /\ shown' = shown
                    ELSE IF Truthy(last0)
                         THEN /\ city' = last0 /\ last_city' = last0
                              /\ coords' = None /\ pc' = "prompt" /\ shown' = shown
                         ELSE /\ city' = prompted /\ last_city' = prompted
                              /\ coords' = None /\ pc' = "prompt" /\ shown' = shown
               ELSE /\ IF argv # <<>>
                       THEN city' = asCity /\ last_city' = asCity
                       ELSE city' = last0 /\ last_city' = last0
                    /\ coords' = None /\ pc' = "prompt" /\ shown' = shown
    /\ UNCHANGED <<InputVars, PureVars, choice, raised, reqs, saved, payload, data>>

\* the branch the try block of main takes
FirstRequest ==
    IF USE_OWM /\ Truthy(city) THEN "geocode"
    ELSE IF variant = "spark" /\ USE_OWM /\ coords # None THEN "onecall"
    ELSE "wttr"

\* the options prompt, the unit toggle, save_cfg, and the entry into try
MainPrompt ==
    /\ pc = "prompt"
    /\ \E k \in {"u", "q", ""} :
        LET toggled == IF units = Str(<<"metric">>) THEN Str(<<"imperial">>)
                       ELSE Str(<<"metric">>)
        IN  /\ choice' = k
            /\ units' = IF k = "u" THEN toggled ELSE units
            /\ shown' = IF k = "u" THEN shown \o <<"Options:", "Units set to">>
                        ELSE Append(shown, "Options:")
            /\ saved' = [units |-> units', last_city |-> last_city]
    /\ pc' = FirstRequest
    /\ UNCHANGED <<InputVars, PureVars, cfg, raised, last_city, city, coords, reqs,
                   payload, data>>

\* geocode_owm: the exception it raises, or "none"
GeocodeRaisesNoEmptyCheck(resp, body) ==
    CASE GetJsonRaises(resp) # "none" -> GetJsonRaises(resp)
      [] body.v # <<>> /\ body.v[1].lat = Absent -> "KeyError"
      [] OTHER -> "none"

GeocodeRaises(resp, body) ==
    CASE GetJsonRaises(resp) # "none" -> GetJsonRaises(resp)
      [] body.v = <<>> -> "ValueError"            \* raise ValueError("City not found")
      [] body.v[1].lat = Absent -> "KeyError"     \* it["lat"]
      [] OTHER -> "none"

GeocodeOwm ==
    /\ pc = "geocode"
    /\ \E resp \in Responses, body \in GeoBodies :
        LET exc == GeocodeRaises(resp, body)
        IN  /\ reqs' = Append(reqs, Request("geocode", resp,
                                            IF resp = "ok200" THEN body ELSE None))
            /\ IF exc # "none"
               THEN Fails(exc) /\ coords' = coords
               ELSE /\ coords' = [lat |-> "lat", lon |-> "lon"]
                    /\ pc' = "onecall"
                    /\ UNCHANGED <<shown, raised>>
    /\ UNCHANGED <<InputVars, PureVars, cfg, choice, units, last_city, city, saved,
                   payload, data>>

\* fetch_onecall's try block: "return" r.json(), "fallback" to
\* fetch_weather_and_forecast, or "raise" to the caller
OnecallOutcomeNoStatusFallback(resp) ==
    IF GetRaises(resp) # "none" THEN "fallback" ELSE "return"

OnecallOutcome(resp) ==
    CASE GetRaises(resp) # "none" ->
            IF IsInstance(GetRaises(resp), "RequestException")
            THEN "fallback" ELSE "raise"
      [] resp = "ok200" -> "return"
      [] resp = "notjson200" ->
            IF IsInstance("JSONDecodeError", "RequestException")
            THEN "fallback" ELSE "raise"
      [] OTHER -> "fallback"

FetchOnecall ==
    /\ pc = "onecall"
    /\ \E resp \in Responses, body \in OneCallBodies :
        /\ reqs' = Append(reqs, Request("onecall", resp,
                                        IF resp = "ok200" THEN body ELSE None))
        /\ CASE OnecallOutcome(resp) = "return" ->
                  data' = body /\ pc' = "render" /\ UNCHANGED <<shown, raised>>
             [] OnecallOutcome(resp) = "fallback" ->
                  data' = data /\ pc' = "weather" /\ UNCHANGED <<shown, raised>>
             [] OTHER ->
                  data' = data /\ Fails(IF GetRaises(resp) # "none" THEN GetRaises(resp)
                                        ELSE "JSONDecodeError")
    /\ UNCHANGED <<InputVars, PureVars, cfg, choice, units, last_city, city, coords,
                   saved, payload>>

\* fetch_weather_and_forecast: the /weather request
FetchWeather ==
    /\ pc = "weather"
    /\ \E resp \in Responses, cur \in RunCurBodies :
        /\ reqs' = Append(reqs, Request("weather", resp,
                                        IF resp = "ok200" THEN cur ELSE None))
        /\ IF GetJsonRaises(resp) # "none"
           THEN Fails(GetJsonRaises(resp)) /\ payload' = payload
           ELSE /\ payload' = [cur |-> cur]
                /\ pc' = "forecast"
                /\ UNCHANGED <<shown, raised>>
    /\ UNCHANGED <<InputVars, PureVars, cfg, choice, units, last_city, city, coords,
                   saved, data>>

\* fetch_weather_and_forecast: the /forecast request and the normalizer
FetchForecast ==
    /\ pc = "forecast"
    /\ \E resp \in Responses, fr_list \in RunForecastLists :
        LET p == [cur |-> payload.cur, list |-> fr_list]
            owm_like == Normalize(p)
        IN  /\ reqs' = Append(reqs, Request("forecast", resp,
                                            IF resp = "ok200" THEN List(fr_list) ELSE None))
            /\ IF GetJsonRaises(resp) # "none"
               THEN Fails(GetJsonRaises(resp)) /\ UNCHANGED <<payload, data>>
               ELSE IF owm_like.k = "raise"
               THEN Fails(owm_like.exc) /\ payload' = p /\ data' = data
               ELSE /\ payload' = p /\ data' = owm_like.v
                    /\ pc' = "render"
                    /\ UNCHANGED <<shown, raised>>
    /\ UNCHANGED <<InputVars, PureVars, cfg, choice, units, last_city, city, coords,
                   saved>>

\* fetch_wttr_city
FetchWttr ==
    /\ pc = "wttr"
    /\ \E resp \in Responses, body \in WttrBodies :
        /\ reqs' = Append(reqs, Request("wttr", resp,
                                        IF resp = "ok200" THEN body ELSE None))
        /\ IF GetJsonRaises(resp) # "none"
           THEN Fails(GetJsonRaises(resp)) /\ data' = data
           ELSE /\ data' = body
                /\ pc' = "render"
                /\ UNCHANGED <<shown, raised>>
    /\ UNCHANGED <<InputVars, PureVars, cfg, choice, units, last_city, city, coords,
                   saved, payload>>

\* the renderer main calls: the keyless one after a wttr fetch
Renderer == IF reqs[Len(reqs)].to = "wttr" THEN "render_wttr" ELSE "render_owm"

Render ==
    /\ pc = "render"
    /\ LET r == IF Renderer = "render_wttr" THEN RenderWttr(variant, data)
                ELSE RenderOwm(variant, data)
       IN  IF r.exc = "none"
           THEN /\ shown' = Append(shown, Renderer)
                /\ pc' = "done"
                /\ raised' = raised
           ELSE FailsAfter(r.exc, IF r.partial THEN <<"partial " \o Renderer>> ELSE <<>>)
    /\ UNCHANGED <<InputVars, PureVars, cfg, choice, units, last_city, city, coords,
                   reqs, saved, payload, data>>

Next ==
    \/ MainStart
    \/ MainPrompt
    \/ GeocodeOwm
    \/ FetchOnecall
    \/ FetchWeather
    \/ FetchForecast
    \/ FetchWttr
    \/ Render

Spec == Init /\ [][Next]_vars

----------------------------------------------------------------------------
(* Claims about a run of main *)

\* the positions of the requests made to an endpoint
ReqsTo(endpoint) == {i \in 1..Len(reqs) : reqs[i].to = endpoint}

FallbackReqs == ReqsTo("weather") \cup ReqsTo("forecast")

IsErrorLine(line) == line \in {"Network/API error:", "Error:"}

ErrorLines == SelectSeq(shown, IsErrorLine)

\* request j was the last one and endpoint e is requested next, or was
NextRequestIs(j, e) ==
    \/ Len(reqs) = j /\ pc = e
    \/ Len(reqs) > j /\ reqs[j + 1].to = e

NoFallback == FallbackReqs = {} /\ pc \notin {"weather", "forecast"}

\* the part of C1 the code keeps: the rich endpoint is requested at most once
\* and before any fallback request; after a non-success status or a transport
\* failure the fallback follows (/weather, then /forecast once /weather has
\* answered)
C1_FirstOnceThenFallback ==
    /\ Cardinality(ReqsTo("onecall")) <= 1
    /\ \A i \in FallbackReqs : \E j \in ReqsTo("onecall") : j < i
    /\ \A j \in ReqsTo("onecall") :
          reqs[j].got \in {"status4xx", "timeout", "connerr"} => NextRequestIs(j, "weather")
    /\ \A i \in ReqsTo("weather") :
          reqs[i].got = "ok200" => NextRequestIs(i, "forecast")
    /\ \A i \in ReqsTo("forecast") :
          i > 1 /\ reqs[i - 1].to = "weather" /\ reqs[i - 1].got = "ok200"

EmptyGeocode(i) ==
    reqs[i].to = "geocode" /\ reqs[i].got = "ok200" /\ reqs[i].body = List(<<>>)

\* C2: when the geocoding call returns an empty match list the run fails with
\* a not-found error shown as an error line, and no request is ever made to
\* the rich endpoint, the fallback endpoints or the keyless provider.
C2_NotFoundStopsRun ==
    \A i \in 1..Len(reqs) :
        EmptyGeocode(i) =>
            /\ pc = "done"
            /\ raised = "ValueError"
            /\ ErrorLines = <<"Error:">>
            /\ shown[Len(shown)] = "Error:"
            /\ \A j \in 1..Len(reqs) : reqs[j].to = "geocode"

C2_Witness ==
    /\ Len(reqs) = 1
    /\ EmptyGeocode(1)
    /\ pc = "done"
    /\ variant = "rich"

RenderedFully == shown # <<>> /\ shown[Len(shown)] \in {"render_owm", "render_wttr"}

C4_Original ==
    (/\ pc = "done"
     /\ reqs # <<>>
     /\ reqs[Len(reqs)].to \in {"weather", "forecast", "wttr"}
     /\ reqs[Len(reqs)].got \in {"timeout", "connerr", "status4xx"})
    => ErrorLines = <<"Network/API error:">>

\* sys.argv[1:] starts with the coordinate flag and holds no valid pair
BadCoordArgs ==
    /\ argv # <<>>
    /\ argv[1] \in COORD_FLAGS
    /\ ~(Len(argv) >= 3 /\ ParsesAsFloat(argv[2]) /\ ParsesAsFloat(argv[3]))

\* C5 as stated: when the arguments begin with the coordinate flag and supply
\* no valid latitude/longitude pair (non-numeric values, or fewer than two
\* values), the program shows a usage message and ends without any network
\* request, in both variants.
C5_Original ==
    BadCoordArgs =>
        /\ reqs = <<>>
        /\ pc = "done" => shown = <<"Bad coords. --coords LAT LON">>

\* C6 as stated: when the credential environment variable is absent, no
\* request goes to the geocoding, rich or fallback endpoints; the only request
\* of the run goes to the keyless provider and its payload reaches the keyless
\* renderer unnormalized, in both variants.
C6_Original ==
    env = "absent" =>
        /\ \A i \in 1..Len(reqs) : reqs[i].to = "wttr"
        /\ Len(reqs) <= 1
        /\ pc = "render" => Renderer = "render_wttr" /\ data = reqs[1].body

\* the run fetched a snapshot and handed it to render_owm / render_rich_owm
OwmRenderTried == pc \in {"done", "crashed"} /\ data # None /\ IsDict(data) /\ "current" \in DOMAIN data

\* the snapshot lacks nothing but its current temperature: with one put in,
\* the renderer completes
OnlyTempMissing ==
    /\ data.current.temp \in {Absent, None}
    /\ RenderOwm(variant, [data EXCEPT !.current.temp = Num(20)]).exc = "none"

\* C11 as stated: for every canonical snapshot whose current temperature is
\* missing, omitted or present with a null value (as the Case B normalizer
\* produces it), the renderer shows the current temperature as 0 and completes
\* the render without raising.
C11_Original ==
    (OwmRenderTried /\ OnlyTempMissing) =>
        /\ ShownTemp(data) = Ok(0)
        /\ raised = "none"
        /\ RenderedFully

\* C12 as stated: at the options prompt, which offers "[q] quit", entering q
\* ends the run: after a q choice no network request is made and nothing is
\* rendered.
C12_Original ==
    choice = "q" =>
        /\ reqs = <<>>
        /\ \A i \in 1..Len(shown) :
              shown[i] \notin {"render_owm", "render_wttr",
                               "partial render_owm", "partial render_wttr"}

====
